---------------------------- MODULE Spec2Model ----------------------------
(***************************************************************************)
(* Lead list screen of bonn-leads: AdminDashboardScreen in                 *)
(* src/app/(app)/home/index.tsx together with the LeadsService request     *)
(* builders of src/services/leads.service.ts.                              *)
(*                                                                         *)
(* The screen is a React function component.  Every handler and every      *)
(* asynchronous continuation runs to completion on the single JS thread,   *)
(* so each one is one action here; the re-render and the effects that a    *)
(* state change schedules are part of the action that made the change.     *)
(* React drops state updates of an unmounted component, so a setter        *)
(* called after teardown changes nothing; everything else a continuation   *)
(* does (network calls, native alerts) still happens.                      *)
(***************************************************************************)
EXTENDS Integers, Sequences, FiniteSets, TLC

(***************************************************************************)
(* Bounds of the model.                                                    *)
(***************************************************************************)
NumLeads == 2          \* lead ids 1..NumLeads exist on the server
NumAssignees == 1      \* profile ids 1..NumAssignees exist on the server
MaxTermLen == 1        \* longest search term the user types
MaxFetches == 2        \* lead requests in flight at once
MaxOps == 2            \* mutation requests in flight at once
MaxShown == 2          \* loadMore is not requested beyond this list length
PageSize == 1          \* leads per server page (the client asks for PER_PAGE)
MaxGestures == 3       \* gestures of the user on the screen
TickMs == 250          \* milliseconds that pass in one step of the clock
NumUsers == 2           \* users who can be logged in

(***************************************************************************)
(* Program constants.                                                      *)
(***************************************************************************)
PER_PAGE == 15         \* per_page of every lead request
DEBOUNCE_MS == 500     \* delay of the search debounce timer

Null == 0              \* null of a number | null state
NoError == ""          \* null of the error state
NoAlert == [title |-> "", message |-> ""]   \* no alert shown yet

LeadIds == 1..NumLeads
AssigneeIds == 1..NumAssignees

\* LEAD_STATUSES: status number -> label and API name
LEAD_STATUSES ==
  [n \in 1..6 |->
     CASE n = 1 -> [label |-> "Pending", apiName |-> "pending"]
       [] n = 2 -> [label |-> "Lead Assigned", apiName |-> "lead_assigned"]
       [] n = 3 -> [label |-> "Lead Contacted", apiName |-> "lead_contacted"]
       [] n = 4 -> [label |-> "Waiting Recall", apiName |-> "waiting_recall"]
       [] n = 5 -> [label |-> "Interview Arranged",
                    apiName |-> "interview_arranged"]
       [] n = 6 -> [label |-> "Finished", apiName |-> "finished"]]

\* the status numbers the model's server and status picker use
StatusNumbers == {1, 2}

getStatusLabel(statusNumber) == LEAD_STATUSES[statusNumber].label

\* STATUS_FILTER_MAP: filter pill -> API value ("" is the null of All Status)
STATUS_FILTER_MAP ==
  [k \in {"All Status", "Pending", "Lead Assigned", "Lead Contacted",
          "Waiting Recall", "Interview Arranged", "Finished"} |->
     CASE k = "All Status" -> ""
       [] k = "Pending" -> "pending"
       [] k = "Lead Assigned" -> "lead_assigned"
       [] k = "Lead Contacted" -> "lead_contacted"
       [] k = "Waiting Recall" -> "waiting_recall"
       [] k = "Interview Arranged" -> "interview_arranged"
       [] k = "Finished" -> "finished"]

\* the pills the model's user taps
StatusKeys == {"All Status", "Pending"}

(***************************************************************************)
(* Search terms are sequences of characters.                               *)
(***************************************************************************)
Alphabet == <<"a", "b", "c", "d", "e">>
Word(n) == [k \in 1..n |-> Alphabet[k]]
Terms == {Word(n) : n \in 0..MaxTermLen} \cup {<<" ">>}

RECURSIVE TrimStart(_)
TrimStart(s) ==
  IF s # <<>> /\ Head(s) = " " THEN TrimStart(Tail(s)) ELSE s

RECURSIVE TrimEnd(_)
TrimEnd(s) ==
  IF s # <<>> /\ s[Len(s)] = " " THEN TrimEnd(SubSeq(s, 1, Len(s) - 1)) ELSE s

\* String.prototype.trim
Trim(s) == TrimEnd(TrimStart(s))

\* a filter builder that always emits a status predicate
buildFiltersAlways(status) ==
  <<[field |-> "status", operator |-> "eq", value |-> status]>>

\* LeadsService.buildFilters(undefined, status)
buildFilters(status) ==
  IF status # "" /\ status # "all" /\ status # "All Status"
    THEN <<[field |-> "status", operator |-> "eq", value |-> status]>>
    ELSE <<>>

\* The query of LeadsService.getLeadsAdvanced as fetchLeads builds it from the
\* searchQuery and selectedStatus of its closure.  An absent parameter is the
\* empty set, a present one a singleton.
LeadQuery(page, q, s) ==
  LET filters == buildFilters(STATUS_FILTER_MAP[s])
  IN [page |-> page,
      per_page |-> PER_PAGE,
      filters |-> IF Len(filters) > 0 THEN {filters} ELSE {},
      search_term |-> IF Trim(q) # <<>> THEN {Trim(q)} ELSE {}]


(***************************************************************************)
(* The server behind the lead API (external; the screen only sees its      *)
(* responses).  Lead i is named Word(i); a search term matches the names   *)
(* it is a prefix of; the status predicate compares API names.             *)
(***************************************************************************)
IsPrefix(t, name) == Len(t) <= Len(name) /\ SubSeq(name, 1, Len(t)) = t

ServerMatches(db, i, query) ==
  /\ \A t \in query.search_term : IsPrefix(t, Word(i))
  /\ \A fs \in query.filters :
       \A k \in 1..Len(fs) :
         fs[k].field = "status" =>
           LEAD_STATUSES[db[i].status].apiName = fs[k].value

\* the Lead record of the API for lead i
ServerLead(db, i) ==
  [id |-> i, assignee |-> db[i].assignee,
   status |-> LEAD_STATUSES[db[i].status].label]

\* LeadsResponse of getLeadsAdvanced for a 2xx answer
ServerResponse(db, query) ==
  LET all == SelectSeq([i \in 1..NumLeads |-> i],
                       LAMBDA i : ServerMatches(db, i, query))
      from == (query.page - 1) * PageSize + 1
      to == IF query.page * PageSize < Len(all)
              THEN query.page * PageSize ELSE Len(all)
      ids == SubSeq(all, from, to)
  IN [leads |-> [k \in 1..Len(ids) |-> ServerLead(db, ids[k])],
      pagination |-> [currentPage |-> query.page,
                      total |-> Len(all),
                      hasNextPage |-> query.page * PageSize < Len(all)]]

InitialServer ==
  [i \in LeadIds |->
     [assignee |-> IF i % 2 = 0 THEN 1 ELSE Null,
      status |-> IF i % 2 = 0 THEN 2 ELSE 1]]

(***************************************************************************)
(* JavaScript values as the service layer sees them: a JSON body is a      *)
(* tagged value, an object carries the record of the fields it has.        *)
(***************************************************************************)
Undefined == [t |-> "undefined"]
JsNull == [t |-> "null"]
Bool(b) == [t |-> "boolean", v |-> b]
Num(n) == [t |-> "number", v |-> n]
Str(s) == [t |-> "string", v |-> s]
Obj(fields) == [t |-> "object", fields |-> fields]
Arr(items) == [t |-> "array", items |-> items]

Nullish(v) == v.t \in {"undefined", "null"}
IsArray(v) == v.t = "array"

\* ToBoolean
Truthy(v) ==
  CASE v.t \in {"undefined", "null"} -> FALSE
    [] v.t = "boolean" -> v.v
    [] v.t = "number" -> v.v # 0
    [] v.t = "string" -> v.v # ""
    [] OTHER -> TRUE

\* a || b
Or(a, b) == IF Truthy(a) THEN a ELSE b

\* v.f for a v that is neither null nor undefined
Get(v, f) ==
  IF v.t = "object" /\ f \in DOMAIN v.fields THEN v.fields[f] ELSE Undefined

\* v?.f
OptGet(v, f) == IF Nullish(v) THEN Undefined ELSE Get(v, f)

\* new ApiError(message, statusCode)
ApiError(message, statusCode) ==
  [name |-> "ApiError", message |-> message, statusCode |-> statusCode]

\* how an async function ends
Returned(value) == [kind |-> "returned", value |-> value]
Threw(err) == [kind |-> "threw", value |-> err]
NoOutcome == [kind |-> "none", value |-> Undefined]

(***************************************************************************)
(* What the network gives back to one fetch() call.                        *)
(***************************************************************************)
\* the lead ids of one page, as the data array of the paginator
PageData == Arr(<<1>>)

\* the Laravel paginator of GET /lead
Paginator ==
  Obj([current_page |-> Num(1), last_page |-> Num(2), per_page |-> Num(PER_PAGE),
       total |-> Num(2), next_page_url |-> Str("/lead?page=2"),
       prev_page_url |-> JsNull, data |-> PageData])

\* a paginator without its data array, and one with nothing but the array
PaginatorNoData ==
  Obj([current_page |-> Num(1), last_page |-> Num(2), per_page |-> Num(PER_PAGE),
       total |-> Num(2), next_page_url |-> Str("/lead?page=2"),
       prev_page_url |-> JsNull])
PaginatorNoMeta == Obj([data |-> PageData])

\* ApiResponse<T>: { ok, statusCode, result: { message, data } }
Envelope(ok, statusCode, result) ==
  Obj([ok |-> Bool(ok), statusCode |-> Num(statusCode), result |-> result])

\* the non-2xx statuses the model's server answers with
HttpErrors == {401, 500}

Bodies200 ==
  { Envelope(TRUE, 200, Obj([message |-> Str("ok"), data |-> Paginator])),
    Envelope(TRUE, 200, Obj([message |-> Str("ok"), data |-> PaginatorNoData])),
    Envelope(TRUE, 200, Obj([message |-> Str("ok"), data |-> PaginatorNoMeta])),
    Envelope(TRUE, 200, Obj([message |-> Str("ok"), data |-> PageData])),
    Envelope(TRUE, 200, Obj([message |-> Str("ok")])),
    Obj([ok |-> Bool(TRUE), statusCode |-> Num(200)]),
    JsNull }

BodiesError(status) ==
  { Envelope(FALSE, status, Obj([message |-> Str("error")])),
    Obj([message |-> Str("Unauthenticated.")]) }

\* the ways one fetchApi call can go: the token cannot be read, fetch()
\* rejects, response.json() rejects, or a JSON body arrives
Wires ==
  {[kind |-> "storageError", status |-> 0, body |-> Undefined],
   [kind |-> "networkError", status |-> 0, body |-> Undefined]}
  \cup {[kind |-> "invalidJson", status |-> st, body |-> Undefined] :
          st \in {200} \cup HttpErrors}
  \cup {[kind |-> "json", status |-> 200, body |-> b] : b \in Bodies200}
  \cup UNION {{[kind |-> "json", status |-> st, body |-> b] :
                 b \in BodiesError(st)} : st \in HttpErrors}

\* fetchApi(endpoint, options), given what the network did
fetchApi(wire) ==
  CASE wire.kind = "storageError" -> Threw(ApiError("Failed to read token", Undefined))
    [] wire.kind = "networkError" ->
         Threw(ApiError("Network request failed", Undefined))
    [] wire.kind = "invalidJson" -> Threw(ApiError("JSON Parse error", Undefined))
    [] OTHER ->
         LET data == wire.body
         IN IF Nullish(data)
              THEN Threw(ApiError("Cannot read property 'result' of null",
                                  Undefined))
              ELSE LET inner == OptGet(Get(data, "result"), "data")
                       extractedData ==
                         IF IsArray(inner)
                           THEN Or(Get(inner, "data"), inner)
                           ELSE Or(inner, Get(data, "result"))
                   IN Returned([result |-> extractedData,
                                ok |-> Get(data, "ok"),
                                statusCode |-> Get(data, "statusCode")])

\* LeadsService.getLeadsAdvanced, given what the network did
getLeadsAdvanced(wire) ==
  LET r == fetchApi(wire)
  IN IF r.kind = "threw" THEN r
     ELSE LET response == r.value
              apiData == response.result
          IN IF ~Truthy(response.ok)
               THEN Threw(ApiError("Failed to fetch leads", response.statusCode))
             ELSE IF Nullish(apiData)
               THEN Threw(ApiError("Cannot read property 'current_page' of undefined",
                                   Undefined))
             ELSE Returned(
                    [leads |-> Get(apiData, "data"),
                     pagination |->
                       [currentPage |-> Get(apiData, "current_page"),
                        lastPage |-> Get(apiData, "last_page"),
                        perPage |-> Get(apiData, "per_page"),
                        total |-> Get(apiData, "total"),
                        hasNextPage |-> Bool(Truthy(Get(apiData, "next_page_url"))),
                        hasPrevPage |-> Bool(Truthy(Get(apiData, "prev_page_url")))]])

\* the message of the ApiError a mutation throws on a response that is not ok
MutationFailedMessage(fn) ==
  CASE fn = "assignLead" -> "Failed to assign lead"
    [] fn = "changeLeadStatus" -> "Failed to change lead status"
    [] OTHER -> "Failed to notify assignee"

\* LeadsService.assignLead, changeLeadStatus and notifyAssignee, given what
\* the network did: the first two return response.result.data, the last
\* response.result
LeadMutation(fn, wire) ==
  LET r == fetchApi(wire)
  IN IF r.kind = "threw" THEN r
     ELSE LET response == r.value
          IN IF ~Truthy(response.ok)
               THEN Threw(ApiError(MutationFailedMessage(fn), response.statusCode))
             ELSE IF fn = "notifyAssignee"
               THEN Returned(response.result)
             ELSE IF Nullish(response.result)
               THEN Threw(ApiError("Cannot read property 'data' of undefined",
                                   Undefined))
             ELSE Returned(Get(response.result, "data"))

ServiceFunctions ==
  {"getLeadsAdvanced", "assignLead", "changeLeadStatus", "notifyAssignee"}

\* the service function fn, given what the network did
ServiceResult(fn, wire) ==
  IF fn = "getLeadsAdvanced" THEN getLeadsAdvanced(wire) ELSE LeadMutation(fn, wire)

NoWire == [kind |-> "none", status |-> 0, body |-> Undefined]
NoCall == [fn |-> "none", args |-> <<>>, pc |-> "idle", wire |-> NoWire]

\* the calls the screen makes, with their arguments
ServiceCalls ==
  {[fn |-> "getLeadsAdvanced", args |-> <<LeadQuery(page, q, s)>>] :
     page \in 1..2, q \in Terms, s \in StatusKeys}
  \cup {[fn |-> "assignLead", args |-> <<leadId, profileId>>] :
          leadId \in LeadIds, profileId \in AssigneeIds}
  \cup {[fn |-> "changeLeadStatus", args |-> <<leadId, statusNumber>>] :
          leadId \in LeadIds, statusNumber \in StatusNumbers}
  \cup {[fn |-> "notifyAssignee", args |-> <<leadId>>] : leadId \in LeadIds}

(***************************************************************************)
(* Authentication: the AuthState of the provider and the two AsyncStorage  *)
(* entries of AuthService.                                                 *)
(***************************************************************************)
UserIds == 1..NumUsers
NoUser == 0

LoggedIn(user, err) ==
  [isAuthenticated |-> TRUE, user |-> user, loading |-> FALSE, error |-> err]
LoggedOut ==
  [isAuthenticated |-> FALSE, user |-> NoUser, loading |-> FALSE,
   error |-> NoError]

\* AsyncStorage after a login of user: TOKEN_KEY and USER_KEY are set
Stored(user) == [token |-> user, auth_user |-> user]

NoLogout ==
  [pc |-> "idle", api |-> "none", removeToken |-> "none", removeUser |-> "none"]

(***************************************************************************)
(* State of the screen.                                                    *)
(***************************************************************************)
VARIABLES
  phase,              \* "init" (constructed), "mounted", "unmounted"
  leads,              \* useState<Lead[]>([])
  assignees,          \* useState<Assignee[]>([]), as the set of their ids
  searchQuery,        \* useState('')
  selectedStatus,     \* useState<StatusFilterKey>('All Status')
  loading,            \* useState(true)
  refreshing,         \* useState(false)
  loadingMore,        \* useState(false)
  currentPage,        \* useState(1)
  hasNextPage,        \* useState(false)
  totalLeads,         \* useState(0)
  assigningLead,      \* useState<number | null>(null)
  unassigningLead,    \* useState<number | null>(null)
  changingStatus,     \* useState<number | null>(null)
  notifyingAssignee,  \* useState<number | null>(null)
  error,              \* useState<string | null>(null)
  searchTimeoutRef,   \* useRef<NodeJS.Timeout>(): handle of the last timer
  timers,             \* pending setTimeout callbacks
  fetches,            \* lead requests in flight, in the order they were issued
  ops,                \* mutation requests in flight, in the order issued
  assigneesReq,       \* the assignee directory request is in flight
  dialog,             \* the confirmation dialog on screen
  alert,              \* the last success/error alert shown
  gestures,           \* gestures the user has made so far
  srv,                \* server side lead records
  svcCall,            \* the LeadsService call being executed, and its position
  netRequests,        \* fetch() calls made on behalf of svcCall
  svcOutcome,         \* how svcCall ended: the value returned or the error thrown
  authState,          \* AuthProvider: useState<AuthState>
  storage,            \* AsyncStorage entries of AuthService
  logout              \* position of the provider's logout() call

listVars == <<leads, currentPage, hasNextPage, totalLeads>>
flagVars == <<loading, refreshing, loadingMore>>
opVars == <<assigningLead, unassigningLead, changingStatus, notifyingAssignee>>
filterVars == <<searchQuery, selectedStatus>>
timerVars == <<searchTimeoutRef, timers>>

serviceVars == <<svcCall, netRequests, svcOutcome>>
authVars == <<authState, storage, logout>>

\* the variables of the lead screen
screenVars == <<phase, leads, assignees, searchQuery, selectedStatus, loading,
                refreshing, loadingMore, currentPage, hasNextPage, totalLeads,
                assigningLead, unassigningLead, changingStatus,
                notifyingAssignee, error, searchTimeoutRef, timers, fetches,
                ops, assigneesReq, dialog, alert, gestures, srv>>

vars == <<screenVars, serviceVars, authVars>>

NoDialog == [kind |-> "none", leadId |-> Null, arg |-> Null, q |-> <<>>, s |-> ""]
Alert(title, message) == [title |-> title, message |-> message]

\* what the screen renders: the loading view, the error view or the list
ViewMode ==
  IF loading /\ Len(leads) = 0 THEN "loading"
  ELSE IF error # NoError /\ Len(leads) = 0 THEN "error"
  ELSE "list"

\* the user can touch the list, the search box and the pills
ListUsable ==
  /\ phase = "mounted" /\ ViewMode = "list" /\ dialog = NoDialog
  /\ gestures < MaxGestures

Gesture == gestures' = gestures + 1

ScreenInit ==
  /\ phase = "init"
  /\ leads = <<>>
  /\ assignees = {}
  /\ searchQuery = <<>>
  /\ selectedStatus = "All Status"
  /\ loading = TRUE
  /\ refreshing = FALSE
  /\ loadingMore = FALSE
  /\ currentPage = 1
  /\ hasNextPage = FALSE
  /\ totalLeads = 0
  /\ assigningLead = Null
  /\ unassigningLead = Null
  /\ changingStatus = Null
  /\ notifyingAssignee = Null
  /\ error = NoError
  /\ searchTimeoutRef = Null
  /\ timers = {}
  /\ fetches = <<>>
  /\ ops = <<>>
  /\ assigneesReq = FALSE
  /\ dialog = NoDialog
  /\ alert = NoAlert
  /\ gestures = 0
  /\ srv = InitialServer

\* no service call is being executed
ServiceIdle ==
  /\ svcCall = NoCall
  /\ netRequests = 0
  /\ svcOutcome = NoOutcome

\* the admin who sees the lead screen is logged in and no logout is running
AuthIdle ==
  /\ authState = LoggedIn(1, NoError)
  /\ storage = Stored(1)
  /\ logout = NoLogout

Init == ScreenInit /\ ServiceIdle /\ AuthIdle

(***************************************************************************)
(* Timers.  setTimeout hands out handles in increasing order, so the next  *)
(* handle is the one after the handle the ref holds (the search effect is  *)
(* the only caller); clearTimeout of a handle that is not pending does     *)
(* nothing.                                                                *)
(***************************************************************************)
clearTimeoutSkipped(ts, h) == ts

clearTimeout(ts, h) == {t \in ts : t.handle # h}

\* The search effect: its cleanup and its first lines clear the timer the ref
\* holds, then a timer is set whose callback closes over the fetchLeads of
\* this render, i.e. over searchQuery q and selectedStatus s.
SearchEffectTimers(ts, ref, q, s) ==
  clearTimeout(ts, ref) \cup
    {[handle |-> ref + 1, remaining |-> DEBOUNCE_MS, q |-> q, s |-> s]}

SearchEffectRef(ref) == ref + 1

(***************************************************************************)
(* fetchLeads(page, isRefresh, isLoadMore) of the closure with searchQuery *)
(* q and selectedStatus s, up to the await of the request.                 *)
(***************************************************************************)
FetchRequest(page, isRefresh, isLoadMore, q, s) ==
  [query |-> LeadQuery(page, q, s), isRefresh |-> isRefresh,
   isLoadMore |-> isLoadMore]

fetchLeads(page, isRefresh, isLoadMore, q, s) ==
  /\ fetches' = Append(fetches, FetchRequest(page, isRefresh, isLoadMore, q, s))
  /\ IF phase # "mounted"
       THEN UNCHANGED <<loading, refreshing, loadingMore, error>>
       ELSE IF isRefresh
         THEN /\ refreshing' = TRUE
              /\ error' = NoError
              /\ UNCHANGED <<loading, loadingMore>>
       ELSE IF isLoadMore
         THEN /\ loadingMore' = TRUE
              /\ UNCHANGED <<loading, refreshing, error>>
       ELSE IF page = 1
         THEN /\ loading' = TRUE
              /\ error' = NoError
              /\ UNCHANGED <<refreshing, loadingMore>>
       ELSE UNCHANGED <<loading, refreshing, loadingMore, error>>

(***************************************************************************)
(* Mount: the effects of the first render run in order: the initial load   *)
(* (fetchLeads(1) and, for an admin, fetchAssignees), the search effect    *)
(* (debounce timer) and the status effect (setCurrentPage(1),              *)
(* fetchLeads(1)).                                                         *)
(***************************************************************************)
Mount ==
  /\ phase = "init"
  /\ phase' = "mounted"
  /\ fetches' = fetches \o
       << FetchRequest(1, FALSE, FALSE, searchQuery, selectedStatus),
          FetchRequest(1, FALSE, FALSE, searchQuery, selectedStatus) >>
  /\ loading' = TRUE
  /\ error' = NoError
  /\ currentPage' = 1
  /\ assigneesReq' = TRUE
  /\ timers' = SearchEffectTimers(timers, searchTimeoutRef, searchQuery,
                                  selectedStatus)
  /\ searchTimeoutRef' = SearchEffectRef(searchTimeoutRef)
  /\ UNCHANGED <<gestures, leads, assignees, filterVars, refreshing, loadingMore,
                 hasNextPage, totalLeads, opVars, ops, dialog, alert, srv>>
  /\ UNCHANGED <<serviceVars, authVars>>

\* Teardown: the cleanups of the mount effect and of the search effect clear
\* the debounce timer; the component's state is no longer updated.
\* a teardown whose cleanups leave the pending debounce timer armed
UnmountKeepsTimer ==
  /\ phase = "mounted"
  /\ phase' = "unmounted"
  /\ UNCHANGED <<gestures, listVars, assignees, filterVars, flagVars, opVars, error,
                 timerVars, fetches, ops, assigneesReq, dialog, alert, srv>>
  /\ UNCHANGED <<serviceVars, authVars>>

Unmount ==
  /\ phase = "mounted"
  /\ phase' = "unmounted"
  /\ timers' = clearTimeout(timers, searchTimeoutRef)
  /\ UNCHANGED <<gestures, listVars, assignees, filterVars, flagVars, opVars, error,
                 searchTimeoutRef, fetches, ops, assigneesReq, dialog, alert,
                 srv>>
  /\ UNCHANGED <<serviceVars, authVars>>


(***************************************************************************)
(* Completion of a lead request: the rest of fetchLeads after the await.   *)
(***************************************************************************)
\* a 2xx continuation that appends the response whatever the mode
LeadsAfterFetchAppends(f, response) ==
  leads \o response.leads

\* the list after a 2xx answer to request f
LeadsAfterFetch(f, response) ==
  IF f.isRefresh \/ f.query.page = 1
    THEN response.leads
    ELSE leads \o response.leads

\* a completion that applies its result whatever the phase
FetchSucceedsUnguarded(i) ==
  LET f == fetches[i]
      response == ServerResponse(srv, f.query)
  IN /\ leads' = LeadsAfterFetch(f, response)
     /\ hasNextPage' = response.pagination.hasNextPage
     /\ totalLeads' = response.pagination.total
     /\ currentPage' = response.pagination.currentPage
     /\ loading' = FALSE
     /\ refreshing' = FALSE
     /\ loadingMore' = FALSE
     /\ alert' = IF f.isRefresh
                   THEN Alert("Refreshed", "Leads updated successfully")
                   ELSE alert
     /\ UNCHANGED error

FetchSucceeds(i) ==
  LET f == fetches[i]
      response == ServerResponse(srv, f.query)
  IN /\ IF phase = "mounted"
          THEN /\ leads' = LeadsAfterFetch(f, response)
               /\ hasNextPage' = response.pagination.hasNextPage
               /\ totalLeads' = response.pagination.total
               /\ currentPage' = response.pagination.currentPage
               /\ loading' = FALSE
               /\ refreshing' = FALSE
               /\ loadingMore' = FALSE
          ELSE UNCHANGED <<listVars, flagVars>>
     /\ alert' = IF f.isRefresh
                   THEN Alert("Refreshed", "Leads updated successfully")
                   ELSE alert
     /\ UNCHANGED error

\* a catch branch that also empties the list
FetchFailsClearsList(i) ==
  LET f == fetches[i]
  IN /\ IF phase = "mounted"
          THEN /\ error' = "Failed to fetch leads"
               /\ loading' = FALSE
               /\ refreshing' = FALSE
               /\ loadingMore' = FALSE
               /\ leads' = <<>>
               /\ UNCHANGED <<currentPage, hasNextPage, totalLeads>>
          ELSE UNCHANGED <<error, flagVars, listVars>>
     /\ alert' = IF ~f.isRefresh /\ ~f.isLoadMore
                   THEN Alert("Failed to Load", "Failed to fetch leads")
                   ELSE alert

FetchFails(i) ==
  LET f == fetches[i]
  IN /\ IF phase = "mounted"
          THEN /\ error' = "Failed to fetch leads"
               /\ loading' = FALSE
               /\ refreshing' = FALSE
               /\ loadingMore' = FALSE
          ELSE UNCHANGED <<error, flagVars>>
     /\ alert' = IF ~f.isRefresh /\ ~f.isLoadMore
                   THEN Alert("Failed to Load", "Failed to fetch leads")
                   ELSE alert
     /\ UNCHANGED listVars

RemoveAt(s, i) == SubSeq(s, 1, i - 1) \o SubSeq(s, i + 1, Len(s))

\* a lead request resolves; requests resolve in any order
FetchResolve ==
  \E i \in 1..Len(fetches) :
    /\ fetches' = RemoveAt(fetches, i)
    /\ \/ FetchSucceeds(i)
       \/ FetchFails(i)
    /\ UNCHANGED <<gestures, phase, assignees, filterVars, opVars, timerVars, ops,
                   assigneesReq, dialog, srv>>
    /\ UNCHANGED <<serviceVars, authVars>>

\* fetchAssignees after the await
AssigneesResolve ==
  /\ assigneesReq
  /\ assigneesReq' = FALSE
  /\ \/ /\ assignees' = IF phase = "mounted" THEN AssigneeIds ELSE assignees
        /\ UNCHANGED alert
     \/ /\ alert' = Alert("Failed to Load", "Could not fetch assignees list")
        /\ UNCHANGED assignees
  /\ UNCHANGED <<gestures, phase, listVars, filterVars, flagVars, opVars, error,
                 timerVars, fetches, ops, dialog, srv>>
  /\ UNCHANGED <<serviceVars, authVars>>

(***************************************************************************)
(* Search box, debounce timer, status pills, pull to refresh, scroll end.  *)
(***************************************************************************)
\* a search box that fetches on every change instead of debouncing
SearchChangeImmediate ==
  \E q \in Terms \ {searchQuery} :
    /\ ListUsable
    /\ Len(fetches) < MaxFetches
    /\ searchQuery' = q
    /\ currentPage' = 1
    /\ fetchLeads(1, FALSE, FALSE, q, selectedStatus)
    /\ Gesture
    /\ UNCHANGED <<phase, leads, hasNextPage, totalLeads, assignees,
                   selectedStatus, opVars, timerVars, ops, assigneesReq,
                   dialog, alert, srv>>
    /\ UNCHANGED <<serviceVars, authVars>>

\* onChangeText={setSearchQuery}; the search effect runs for the new term
SearchChange ==
  \E q \in Terms \ {searchQuery} :
    /\ ListUsable
    /\ searchQuery' = q
    /\ timers' = SearchEffectTimers(timers, searchTimeoutRef, q, selectedStatus)
    /\ searchTimeoutRef' = SearchEffectRef(searchTimeoutRef)
    /\ Gesture
    /\ UNCHANGED <<phase, listVars, assignees, selectedStatus, flagVars,
                   opVars, error, fetches, ops, assigneesReq, dialog, alert,
                   srv>>
    /\ UNCHANGED <<serviceVars, authVars>>

\* time passes; a timer that is due fires before more time passes
Tick ==
  /\ timers # {}
  /\ \A t \in timers : t.remaining > 0
  /\ timers' = {[t EXCEPT !.remaining =
                   IF t.remaining > TickMs THEN t.remaining - TickMs ELSE 0] :
                t \in timers}
  /\ UNCHANGED <<gestures, phase, listVars, assignees, filterVars, flagVars, opVars,
                 error, searchTimeoutRef, fetches, ops, assigneesReq, dialog,
                 alert, srv>>
  /\ UNCHANGED <<serviceVars, authVars>>

\* the debounce callback: setCurrentPage(1); fetchLeads(1) of its closure
TimerFires ==
  \E t \in timers :
    /\ t.remaining = 0
    /\ Len(fetches) < MaxFetches
    /\ timers' = timers \ {t}
    /\ currentPage' = IF phase = "mounted" THEN 1 ELSE currentPage
    /\ fetchLeads(1, FALSE, FALSE, t.q, t.s)
    /\ UNCHANGED <<gestures, phase, leads, hasNextPage, totalLeads, assignees,
                   filterVars, opVars, searchTimeoutRef, ops, assigneesReq,
                   dialog, alert, srv>>
    /\ UNCHANGED <<serviceVars, authVars>>

\* a status pill that goes through the debounce timer
StatusChangeDebounced ==
  \E s \in StatusKeys \ {selectedStatus} :
    /\ ListUsable
    /\ selectedStatus' = s
    /\ timers' = SearchEffectTimers(timers, searchTimeoutRef, searchQuery, s)
    /\ searchTimeoutRef' = SearchEffectRef(searchTimeoutRef)
    /\ Gesture
    /\ UNCHANGED <<phase, listVars, assignees, searchQuery, flagVars, opVars,
                   error, fetches, ops, assigneesReq, dialog, alert, srv>>
    /\ UNCHANGED <<serviceVars, authVars>>

\* a status pill: setSelectedStatus; the status effect runs at once
StatusChange ==
  \E s \in StatusKeys \ {selectedStatus} :
    /\ ListUsable
    /\ Len(fetches) < MaxFetches
    /\ selectedStatus' = s
    /\ currentPage' = 1
    /\ fetchLeads(1, FALSE, FALSE, searchQuery, s)
    /\ Gesture
    /\ UNCHANGED <<phase, leads, hasNextPage, totalLeads, assignees,
                   searchQuery, opVars, timerVars, ops, assigneesReq, dialog,
                   alert, srv>>
    /\ UNCHANGED <<serviceVars, authVars>>

\* RefreshControl onRefresh; the control does not start a pull while its
\* refreshing prop is true
handleRefresh ==
  /\ ListUsable
  /\ ~refreshing
  /\ Len(fetches) < MaxFetches
  /\ fetchLeads(1, TRUE, FALSE, searchQuery, selectedStatus)
  /\ Gesture
  /\ UNCHANGED <<phase, listVars, assignees, filterVars, opVars, timerVars,
                 ops, assigneesReq, dialog, alert, srv>>
  /\ UNCHANGED <<serviceVars, authVars>>

\* FlatList onEndReached
handleLoadMore ==
  /\ ListUsable
  /\ Len(fetches) < MaxFetches
  /\ Len(leads) < MaxShown
  /\ ~loadingMore /\ hasNextPage
  /\ fetchLeads(currentPage + 1, FALSE, TRUE, searchQuery, selectedStatus)
  /\ Gesture
  /\ UNCHANGED <<phase, listVars, assignees, filterVars, opVars, timerVars,
                 ops, assigneesReq, dialog, alert, srv>>
  /\ UNCHANGED <<serviceVars, authVars>>

\* "Try Again" of the error view: fetchLeads(1)
RetryTap ==
  /\ phase = "mounted" /\ ViewMode = "error" /\ dialog = NoDialog
  /\ gestures < MaxGestures
  /\ Len(fetches) < MaxFetches
  /\ fetchLeads(1, FALSE, FALSE, searchQuery, selectedStatus)
  /\ Gesture
  /\ UNCHANGED <<phase, listVars, assignees, filterVars, opVars, timerVars,
                 ops, assigneesReq, dialog, alert, srv>>
  /\ UNCHANGED <<serviceVars, authVars>>


(***************************************************************************)
(* Mutations: assign, unassign, change status, notify.  A handler checks   *)
(* its arguments against the leads and assignees of the current render and *)
(* opens a confirmation dialog; the dialog's Confirm callback closes over  *)
(* that render (its fetchLeads has searchQuery q and selectedStatus s).    *)
(***************************************************************************)
MutationKinds == {"assign", "unassign", "status", "notify"}

HasLead(ls, leadId) == \E k \in 1..Len(ls) : ls[k].id = leadId

\* leads.find((l) => l.id === leadId), for a list that has the lead
FindLead(ls, leadId) ==
  ls[CHOOSE k \in 1..Len(ls) :
       /\ ls[k].id = leadId
       /\ \A j \in 1..(k - 1) : ls[j].id # leadId]

OpenDialog(kind, leadId, arg) ==
  dialog' = [kind |-> kind, leadId |-> leadId, arg |-> arg,
             q |-> searchQuery, s |-> selectedStatus]

handleAssignLead ==
  \E leadId \in LeadIds, assigneeId \in AssigneeIds :
    /\ ListUsable
    /\ IF assigneeId \notin assignees \/ ~HasLead(leads, leadId)
         THEN /\ alert' = Alert("Assignment Failed",
                                "Could not find assignee or lead")
              /\ UNCHANGED dialog
         ELSE /\ OpenDialog("assign", leadId, assigneeId)
              /\ UNCHANGED alert
    /\ Gesture
    /\ UNCHANGED <<phase, listVars, assignees, filterVars, flagVars, opVars,
                   error, timerVars, fetches, ops, assigneesReq, srv>>
    /\ UNCHANGED <<serviceVars, authVars>>

handleUnassignLead ==
  \E leadId \in LeadIds :
    /\ ListUsable
    /\ IF ~HasLead(leads, leadId)
         THEN /\ alert' = Alert("Unassignment Failed", "Could not find lead")
              /\ UNCHANGED dialog
         ELSE IF FindLead(leads, leadId).assignee = Null
         THEN /\ alert' = Alert("Unassignment Failed",
                                "This lead is not assigned to anyone")
              /\ UNCHANGED dialog
         ELSE /\ OpenDialog("unassign", leadId, Null)
              /\ UNCHANGED alert
    /\ Gesture
    /\ UNCHANGED <<phase, listVars, assignees, filterVars, flagVars, opVars,
                   error, timerVars, fetches, ops, assigneesReq, srv>>
    /\ UNCHANGED <<serviceVars, authVars>>

handleStatusChange ==
  \E leadId \in LeadIds, statusNumber \in StatusNumbers :
    /\ ListUsable
    /\ IF ~HasLead(leads, leadId)
         THEN /\ alert' = Alert("Status Update Failed", "Could not find lead")
              /\ UNCHANGED dialog
         ELSE /\ OpenDialog("status", leadId, statusNumber)
              /\ UNCHANGED alert
    /\ Gesture
    /\ UNCHANGED <<phase, listVars, assignees, filterVars, flagVars, opVars,
                   error, timerVars, fetches, ops, assigneesReq, srv>>
    /\ UNCHANGED <<serviceVars, authVars>>

\* a notify handler that does not look at the assignee of the lead
handleNotifyLeadUnchecked(leadId) ==
  /\ ListUsable
  /\ IF ~HasLead(leads, leadId)
       THEN /\ alert' = Alert("Notification Failed", "Could not find lead")
            /\ UNCHANGED dialog
       ELSE /\ OpenDialog("notify", leadId, Null)
            /\ UNCHANGED alert
  /\ Gesture
  /\ UNCHANGED <<phase, listVars, assignees, filterVars, flagVars, opVars,
                 error, timerVars, fetches, ops, assigneesReq, srv>>
  /\ UNCHANGED <<serviceVars, authVars>>

\* handleNotify(leadId): the Notify button of one lead card
handleNotifyLead(leadId) ==
  /\ ListUsable
  /\ IF ~HasLead(leads, leadId)
       THEN /\ alert' = Alert("Notification Failed", "Could not find lead")
            /\ UNCHANGED dialog
       ELSE IF FindLead(leads, leadId).assignee = Null
       THEN /\ alert' = Alert("Notification Failed",
                              "This lead is not assigned to anyone")
            /\ UNCHANGED dialog
       ELSE /\ OpenDialog("notify", leadId, Null)
            /\ UNCHANGED alert
  /\ Gesture
  /\ UNCHANGED <<phase, listVars, assignees, filterVars, flagVars, opVars,
                 error, timerVars, fetches, ops, assigneesReq, srv>>
  /\ UNCHANGED <<serviceVars, authVars>>

handleNotify ==
  \E leadId \in LeadIds : handleNotifyLead(leadId)

\* a Cancel that leaves the assign marker set on the lead of the dialog
DialogCancelSetsMarker ==
  /\ dialog # NoDialog
  /\ dialog' = NoDialog
  /\ assigningLead' = dialog.leadId
  /\ UNCHANGED <<gestures, phase, listVars, assignees, filterVars, flagVars,
                 unassigningLead, changingStatus, notifyingAssignee,
                 error, timerVars, fetches, ops, assigneesReq, alert, srv>>
  /\ UNCHANGED <<serviceVars, authVars>>

\* Cancel of the confirmation dialog (onCancel is undefined)
DialogCancel ==
  /\ dialog # NoDialog
  /\ dialog' = NoDialog
  /\ UNCHANGED <<gestures, phase, listVars, assignees, filterVars, flagVars, opVars,
                 error, timerVars, fetches, ops, assigneesReq, alert, srv>>
  /\ UNCHANGED <<serviceVars, authVars>>

\* the optimistic update of a mutation of the given kind
OptimisticLead(lead, kind, arg) ==
  CASE kind = "assign" -> [lead EXCEPT !.assignee = arg]
    [] kind = "unassign" -> [lead EXCEPT !.assignee = Null]
    [] kind = "status" -> [lead EXCEPT !.status = getStatusLabel(arg)]
    [] OTHER -> lead

\* an update that leaves the list as it is
OptimisticUpdateSkipped(prevLeads, kind, leadId, arg) == prevLeads

OptimisticUpdate(prevLeads, kind, leadId, arg) ==
  [k \in 1..Len(prevLeads) |->
     IF prevLeads[k].id = leadId
       THEN OptimisticLead(prevLeads[k], kind, arg)
       ELSE prevLeads[k]]

\* setAssigningLead / setUnassigningLead / setChangingStatus /
\* setNotifyingAssignee of the mutation kind, with value v
SetOperation(kind, v) ==
  /\ assigningLead' =
       IF phase = "mounted" /\ kind = "assign" THEN v ELSE assigningLead
  /\ unassigningLead' =
       IF phase = "mounted" /\ kind = "unassign" THEN v ELSE unassigningLead
  /\ changingStatus' =
       IF phase = "mounted" /\ kind = "status" THEN v ELSE changingStatus
  /\ notifyingAssignee' =
       IF phase = "mounted" /\ kind = "notify" THEN v ELSE notifyingAssignee

\* Confirm of the dialog, up to the await of the mutation request
DialogConfirm ==
  /\ dialog # NoDialog
  /\ Len(ops) < MaxOps
  /\ dialog' = NoDialog
  /\ SetOperation(dialog.kind, dialog.leadId)
  /\ leads' = IF phase = "mounted"
                THEN OptimisticUpdate(leads, dialog.kind, dialog.leadId,
                                      dialog.arg)
                ELSE leads
  /\ ops' = Append(ops, dialog)
  /\ UNCHANGED <<gestures, phase, currentPage, hasNextPage, totalLeads, assignees,
                 filterVars, flagVars, error, timerVars, fetches,
                 assigneesReq, alert, srv>>
  /\ UNCHANGED <<serviceVars, authVars>>

\* the server applies a mutation
ServerApply(db, op) ==
  CASE op.kind = "assign" -> [db EXCEPT ![op.leadId].assignee = op.arg]
    [] op.kind = "unassign" -> [db EXCEPT ![op.leadId].assignee = Null]
    [] op.kind = "status" -> [db EXCEPT ![op.leadId].status = op.arg]
    [] OTHER -> db

SuccessAlert(kind) ==
  CASE kind = "assign" -> Alert("Assignment Successful", "assigned")
    [] kind = "unassign" -> Alert("Unassignment Successful", "unassigned")
    [] kind = "status" -> Alert("Status Updated", "status changed")
    [] OTHER -> Alert("Notification Sent", "notified")

FailureAlert(kind) ==
  CASE kind = "assign" -> Alert("Assignment Failed", "Failed to assign lead")
    [] kind = "unassign" ->
         Alert("Unassignment Failed", "Failed to unassign lead")
    [] kind = "status" ->
         Alert("Status Update Failed", "Failed to change lead status")
    [] OTHER -> Alert("Notification Failed", "Failed to notify assignee")

\* a success continuation whose finally block does not reset the marker
OpSucceedsKeepsMarker(i) ==
  LET op == ops[i]
  IN /\ srv' = ServerApply(srv, op)
     /\ alert' = SuccessAlert(op.kind)
     /\ UNCHANGED <<opVars, flagVars, error, fetches>>

\* the mutation request of ops[i] succeeds: try block after the await, finally
OpSucceeds(i) ==
  LET op == ops[i]
  IN /\ srv' = ServerApply(srv, op)
     /\ alert' = SuccessAlert(op.kind)
     /\ SetOperation(op.kind, Null)
     /\ UNCHANGED <<flagVars, error, fetches>>

\* a failure handler without the refetch
OpFailsNoRollback(i) ==
  LET op == ops[i]
  IN /\ alert' = FailureAlert(op.kind)
     /\ UNCHANGED <<flagVars, error, fetches>>
     /\ SetOperation(op.kind, Null)
     /\ UNCHANGED srv

\* a failure handler that refetches page 1 for every kind, notify included
OpFailsAlwaysRefetch(i) ==
  LET op == ops[i]
  IN /\ alert' = FailureAlert(op.kind)
     /\ Len(fetches) < MaxFetches
     /\ fetchLeads(1, TRUE, FALSE, op.q, op.s)
     /\ SetOperation(op.kind, Null)
     /\ UNCHANGED srv

\* the mutation request of ops[i] fails: catch block, finally
OpFails(i) ==
  LET op == ops[i]
  IN /\ alert' = FailureAlert(op.kind)
     /\ IF op.kind = "notify"
          THEN UNCHANGED <<flagVars, error, fetches>>
          ELSE /\ Len(fetches) < MaxFetches
               /\ fetchLeads(1, TRUE, FALSE, op.q, op.s)
     /\ SetOperation(op.kind, Null)
     /\ UNCHANGED srv

\* a mutation request resolves; requests resolve in any order
OpResolve ==
  \E i \in 1..Len(ops) :
    /\ ops' = RemoveAt(ops, i)
    /\ \/ OpSucceeds(i)
       \/ OpFails(i)
    /\ UNCHANGED <<gestures, phase, listVars, assignees, filterVars, timerVars,
                   assigneesReq, dialog>>
    /\ UNCHANGED <<serviceVars, authVars>>

Next ==
  \/ Mount
  \/ Unmount
  \/ FetchResolve
  \/ AssigneesResolve
  \/ SearchChange
  \/ Tick
  \/ TimerFires
  \/ StatusChange
  \/ handleRefresh
  \/ handleLoadMore
  \/ RetryTap
  \/ handleAssignLead
  \/ handleUnassignLead
  \/ handleStatusChange
  \/ handleNotify
  \/ DialogCancel
  \/ DialogConfirm
  \/ OpResolve

Spec == Init /\ [][Next]_vars

TypeOK ==
  /\ phase \in {"init", "mounted", "unmounted"}
  /\ searchQuery \in Terms
  /\ selectedStatus \in StatusKeys
  /\ loading \in BOOLEAN /\ refreshing \in BOOLEAN /\ loadingMore \in BOOLEAN
  /\ assigningLead \in LeadIds \cup {Null}
  /\ unassigningLead \in LeadIds \cup {Null}
  /\ changingStatus \in LeadIds \cup {Null}
  /\ notifyingAssignee \in LeadIds \cup {Null}
  /\ Len(fetches) <= MaxFetches
  /\ Len(ops) <= MaxOps


(***************************************************************************)
(* The service layer: one LeadsService call from its invocation to its     *)
(* return or throw.  fetchApi reads the token, makes one fetch() call and  *)
(* parses the body; the service function maps the result.                  *)
(***************************************************************************)
\* the screen calls a service function
ServiceInvoke ==
  /\ svcCall.pc = "idle"
  /\ \E c \in ServiceCalls :
       svcCall' = [fn |-> c.fn, args |-> c.args, pc |-> "token", wire |-> NoWire]
  /\ netRequests' = 0
  /\ svcOutcome' = NoOutcome
  /\ UNCHANGED <<screenVars, authVars>>

\* fetchApi: await AsyncStorage.getItem('token'), then fetch(url, ...); a
\* rejected getItem goes to the catch block without a request
TokenRead ==
  /\ svcCall.pc = "token"
  /\ \/ /\ svcCall' = [svcCall EXCEPT !.pc = "network"]
        /\ netRequests' = netRequests + 1
        /\ UNCHANGED svcOutcome
     \/ LET wire == [kind |-> "storageError", status |-> 0, body |-> Undefined]
        IN /\ svcCall' = [svcCall EXCEPT !.pc = "done", !.wire = wire]
           /\ svcOutcome' = ServiceResult(svcCall.fn, wire)
           /\ UNCHANGED netRequests
  /\ UNCHANGED <<screenVars, authVars>>

\* a network layer that sends the request again when fetch() rejects
NetworkAnswersRetrying ==
  /\ svcCall.pc = "network"
  /\ \E wire \in {w \in Wires : w.kind # "storageError"} :
       IF wire.kind = "networkError" /\ netRequests < 2
         THEN /\ netRequests' = netRequests + 1
              /\ UNCHANGED <<svcCall, svcOutcome>>
         ELSE /\ svcCall' = [svcCall EXCEPT !.pc = "done", !.wire = wire]
              /\ svcOutcome' = ServiceResult(svcCall.fn, wire)
              /\ UNCHANGED netRequests
  /\ UNCHANGED <<screenVars, authVars>>

\* the fetch() call settles and the service function returns or throws
NetworkAnswers ==
  /\ svcCall.pc = "network"
  /\ \E wire \in {w \in Wires : w.kind # "storageError"} :
       /\ svcCall' = [svcCall EXCEPT !.pc = "done", !.wire = wire]
       /\ svcOutcome' = ServiceResult(svcCall.fn, wire)
  /\ UNCHANGED netRequests
  /\ UNCHANGED <<screenVars, authVars>>

\* the caller has taken the result; the next call can start
ServiceSettled ==
  /\ svcCall.pc = "done"
  /\ svcCall' = NoCall
  /\ netRequests' = 0
  /\ svcOutcome' = NoOutcome
  /\ UNCHANGED <<screenVars, authVars>>

ServiceNext ==
  \/ ServiceInvoke
  \/ TokenRead
  \/ NetworkAnswers
  \/ ServiceSettled

ServiceSpec == Init /\ [][ServiceNext]_vars

(***************************************************************************)
(* Logout: AuthProvider.logout calls AuthService.logout, which calls the   *)
(* logout endpoint and then clearAuthData; clearAuthData removes the two   *)
(* storage entries with Promise.all inside try/catch.                      *)
(***************************************************************************)
\* a session of some user; the auth state may hold the error left by a
\* failed profile refresh or update
AuthErrors == {NoError, "Failed to refresh profile", "Network error"}

AuthInit ==
  /\ ScreenInit
  /\ ServiceIdle
  /\ \E user \in UserIds, err \in AuthErrors :
       /\ authState = LoggedIn(user, err)
       /\ storage = Stored(user)
  /\ logout = NoLogout

\* logout(): setAuthState(prev => ({...prev, loading: true})), then
\* AuthService.logout() calls fetchApi('/logout')
LogoutStart ==
  /\ logout.pc = "idle"
  /\ authState' = [authState EXCEPT !.loading = TRUE]
  /\ logout' = [logout EXCEPT !.pc = "api"]
  /\ UNCHANGED <<storage, screenVars, serviceVars>>

\* fetchApi('/logout') resolves or throws; the catch block only warns, and
\* the finally block starts clearAuthData: both removeItem calls are made
LogoutApiSettles ==
  /\ logout.pc = "api"
  /\ \E result \in {"resolved", "threw"} :
       logout' = [pc |-> "clearing", api |-> result,
                  removeToken |-> "pending", removeUser |-> "pending"]
  /\ UNCHANGED <<authState, storage, screenVars, serviceVars>>

\* AsyncStorage.removeItem(TOKEN_KEY) settles: the entry is removed, or the
\* call rejects and the entry stays
RemoveTokenSettles ==
  /\ logout.removeToken = "pending"
  /\ \/ /\ logout' = [logout EXCEPT !.removeToken = "removed"]
        /\ storage' = [storage EXCEPT !.token = NoUser]
     \/ /\ logout' = [logout EXCEPT !.removeToken = "rejected"]
        /\ UNCHANGED storage
  /\ UNCHANGED <<authState, screenVars, serviceVars>>

\* AsyncStorage.removeItem(USER_KEY) settles
RemoveUserSettles ==
  /\ logout.removeUser = "pending"
  /\ \/ /\ logout' = [logout EXCEPT !.removeUser = "removed"]
        /\ storage' = [storage EXCEPT !.auth_user = NoUser]
     \/ /\ logout' = [logout EXCEPT !.removeUser = "rejected"]
        /\ UNCHANGED storage
  /\ UNCHANGED <<authState, screenVars, serviceVars>>

\* Promise.all has settled: both removals are done, or one has rejected (the
\* catch block logs it).  AuthService.logout returns and the provider sets
\* the logged-out state and navigates away.
LogoutCompletes ==
  /\ logout.pc = "clearing"
  /\ \/ logout.removeToken = "removed" /\ logout.removeUser = "removed"
     \/ logout.removeToken = "rejected"
     \/ logout.removeUser = "rejected"
  /\ authState' = LoggedOut
  /\ logout' = [logout EXCEPT !.pc = "done"]
  /\ UNCHANGED <<storage, screenVars, serviceVars>>

AuthNext ==
  \/ LogoutStart
  \/ LogoutApiSettles
  \/ RemoveTokenSettles
  \/ RemoveUserSettles
  \/ LogoutCompletes

AuthSpec == AuthInit /\ [][AuthNext]_vars

(***************************************************************************)
(* Properties.                                                             *)
(***************************************************************************)
\* the operation marker of a mutation kind
Marker(kind) ==
  CASE kind = "assign" -> assigningLead
    [] kind = "unassign" -> unassigningLead
    [] kind = "status" -> changingStatus
    [] OTHER -> notifyingAssignee

Busy(leadId) == \E k \in 1..Len(ops) : ops[k].leadId = leadId

\* a lead request was issued in this step
FetchIssued == Len(fetches') = Len(fetches) + 1
IssuedFetch == fetches'[Len(fetches')]

\* a mutation request was issued in this step
OpIssued == Len(ops') = Len(ops) + 1

\* a mutation request of the given kind failed in this step
OpFailed(kind) == Len(ops') = Len(ops) - 1 /\ alert' = FailureAlert(kind)

\* a debounce timer fired in this step
TimerFired == Cardinality(timers') < Cardinality(timers) /\ phase' = phase

\* C1: mutual exclusion of visible fetches: at no reachable state are two
\* lead fetches (first page, refresh, loadMore) in flight at once.
C1_OneVisibleFetch == Len(fetches) <= 1

\* C2: at most one of the three visible loading flags loading, refreshing,
\* loadingMore is true in every reachable state.
C2_OneLoadingFlag ==
  /\ ~(loading /\ refreshing)
  /\ ~(loading /\ loadingMore)
  /\ ~(refreshing /\ loadingMore)

\* C3: busy rejection: while a lead has a pending mutation, no further
\* mutation request is issued for it, and confirming a further mutation of it
\* changes neither the list nor the operation entries.
C3_BusyRejection ==
  [][\A l \in LeadIds :
       Busy(l) =>
         /\ ~(OpIssued /\ ops'[Len(ops')].leadId = l)
         /\ (dialog.leadId = l /\ dialog' = NoDialog) =>
              UNCHANGED <<ops, leads, opVars>>]_vars

\* C4: a lead id has at most one in-flight operation entry: it is recorded
\* in at most one of the four operation markers and has at most one mutation
\* request in flight.
C4_OneOperationPerLead ==
  \A l \in LeadIds :
    /\ Cardinality({k \in 1..Len(ops) : ops[k].leadId = l}) <= 1
    /\ Cardinality({m \in MutationKinds : Marker(m) = l}) <= 1

\* C5: optimistic patch immediacy: in the state right after a mutation of lead
\* L is confirmed, with its request issued and not yet resolved, every
\* displayed lead with id L carries the new value (the assignee for assign,
\* no assignee for unassign, the new status label for change-status), and L
\* is still displayed if it was.
C5_OptimisticPatchImmediate ==
  [][(phase = "mounted" /\ dialog # NoDialog /\ OpIssued) =>
       /\ ops'[Len(ops')] = dialog
       /\ HasLead(leads, dialog.leadId) => HasLead(leads', dialog.leadId)
       /\ \A k \in 1..Len(leads') :
            leads'[k].id = dialog.leadId =>
              /\ dialog.kind = "assign" => leads'[k].assignee = dialog.arg
              /\ dialog.kind = "unassign" => leads'[k].assignee = Null
              /\ dialog.kind = "status" =>
                   leads'[k].status = LEAD_STATUSES[dialog.arg].label]_vars

\* an assign is pending for a displayed lead that shows the new assignee while
\* the server still has the old one
C5_Witness ==
  \E k \in 1..Len(ops) : \E j \in 1..Len(leads) :
    /\ phase = "mounted"
    /\ ops[k].kind = "assign"
    /\ leads[j].id = ops[k].leadId
    /\ leads[j].assignee = ops[k].arg
    /\ srv[ops[k].leadId].assignee # ops[k].arg

\* C6: rollback on failure: the step in which an assign, unassign or
\* change-status request fails issues a page-1 refresh fetch and, on the
\* mounted screen, sets refreshing and clears the operation marker of that
\* kind.
C6_RollbackOnFailure ==
  [][\A kind \in {"assign", "unassign", "status"} :
       OpFailed(kind) =>
         /\ FetchIssued
         /\ IssuedFetch.isRefresh
         /\ IssuedFetch.query.page = 1
         /\ phase = "mounted" => (refreshing' /\ Marker(kind)' = Null)]_vars

\* a failed assign has been reported, its refetch is in flight and no
\* operation entry is left
C6_Witness ==
  /\ phase = "mounted"
  /\ alert = FailureAlert("assign")
  /\ ops = <<>>
  /\ assigningLead = Null
  /\ refreshing
  /\ \E k \in 1..Len(fetches) : fetches[k].isRefresh

C8_DebounceCollapse ==
  [][/\ searchQuery' # searchQuery =>
          /\ fetches' = fetches
          /\ \E t \in timers' :
               /\ timers' = {t}
               /\ t.q = searchQuery'
               /\ t.remaining = DEBOUNCE_MS
     /\ TimerFired =>
          /\ \A t \in timers \ timers' : t.remaining = 0
          /\ timers' = {}
          /\ FetchIssued
          /\ IssuedFetch.query.page = 1
          /\ ~IssuedFetch.isRefresh /\ ~IssuedFetch.isLoadMore
          /\ IssuedFetch.query.search_term =
               LeadQuery(1, searchQuery, selectedStatus).search_term]_vars

\* two search changes were the only gestures, the timer of the second has
\* fired, and the one fetch in flight carries the last term
C8_Witness ==
  /\ gestures = 2
  /\ searchTimeoutRef = 3
  /\ searchQuery = <<"a">>
  /\ timers = {}
  /\ Len(fetches) = 1
  /\ fetches[1].query.search_term = {<<"a">>}

\* C9: each search change cancels the emission of the previous one: at most
\* one debounce timer is pending, and it is the timer of the latest change
\* (the one the ref holds, closing over the current search term).
C9_OnePendingTimer ==
  /\ Cardinality(timers) <= 1
  /\ \A t \in timers : t.handle = searchTimeoutRef /\ t.q = searchQuery

\* the timer of a second search change is pending, alone
C9_Witness ==
  /\ gestures = 2
  /\ searchTimeoutRef = 3
  /\ Cardinality(timers) = 1
  /\ \A t \in timers : t.remaining = DEBOUNCE_MS

\* C10 as claimed: a status filter change is debounced like a search change,
\* so the change itself issues no lead fetch.
C10_StatusChangeDebounced ==
  [][selectedStatus' # selectedStatus => fetches' = fetches]_vars

\* C10 as amended: a status filter change is not debounced: the change itself
\* issues exactly one first-page fetch for the new status and the current
\* search term, and touches no timer.
C10_StatusChangeImmediate ==
  [][selectedStatus' # selectedStatus =>
       /\ FetchIssued
       /\ IssuedFetch =
            FetchRequest(1, FALSE, FALSE, searchQuery, selectedStatus')
       /\ SubSeq(fetches', 1, Len(fetches)) = fetches
       /\ UNCHANGED timerVars]_vars

\* one tap on the Pending pill, and its fetch is already in flight
C10_Witness ==
  /\ gestures = 1
  /\ selectedStatus = "Pending"
  /\ \E k \in 1..Len(fetches) :
       fetches[k].query.filters =
         {<<[field |-> "status", operator |-> "eq", value |-> "pending"]>>}


\* C11: after teardown no debounce emission fires: the timer that was pending
\* when the screen unmounted is cancelled, so no timer is armed in an unmounted
\* screen and no step of an unmounted screen is a debounce timer firing.
C11_NoDebounceAfterTeardown ==
  phase = "unmounted" => timers = {}

\* C11 witness: the screen was torn down before either mount fetch answered
\* (so the debounce timer armed at mount had not fired) and no timer is left.
C11_Witness ==
  /\ phase = "unmounted"
  /\ gestures = 0
  /\ Len(fetches) = 2
  /\ leads = <<>>
  /\ alert = NoAlert
  /\ searchTimeoutRef = 1
  /\ timers = {}

\* C12: a loadMore fetch is only issued when hasNextPage is true and no fetch
\* of any mode is in flight, and it requests page currentPage + 1.
C12_LoadMoreGuard ==
  [][(FetchIssued /\ IssuedFetch.isLoadMore)
       => /\ hasNextPage
          /\ fetches = <<>>
          /\ IssuedFetch.query.page = currentPage + 1]_vars

\* the step is the 2xx continuation of the pending fetch i on a mounted screen
FetchSucceeded(i) ==
  /\ phase = "mounted"
  /\ i \in 1..Len(fetches)
  /\ fetches' = RemoveAt(fetches, i)
  /\ ops' = ops
  /\ FetchSucceeds(i)

\* the step is the catch branch of the pending fetch i on a mounted screen
FetchFailed(i) ==
  /\ phase = "mounted"
  /\ i \in 1..Len(fetches)
  /\ fetches' = RemoveAt(fetches, i)
  /\ ops' = ops
  /\ FetchFails(i)

\* C13: a successful loadMore fetch appends the leads of the response, in
\* order, to the end of the list (the previous list stays as a prefix) and
\* currentPage becomes the previous currentPage plus one.
C13_LoadMoreAppends ==
  [][\A i \in 1..Len(fetches) :
       (FetchSucceeded(i) /\ fetches[i].isLoadMore)
         => /\ leads' = leads \o ServerResponse(srv, fetches[i].query).leads
            /\ currentPage' = currentPage + 1]_vars

\* C14: a successful first-page or refresh fetch replaces the list wholesale
\* with the leads of the response, leaves currentPage equal to 1, and takes
\* hasNextPage and the total from the response.
C14_FirstPageReplaces ==
  [][\A i \in 1..Len(fetches) :
       (FetchSucceeded(i) /\ ~fetches[i].isLoadMore)
         => LET response == ServerResponse(srv, fetches[i].query)
            IN /\ leads' = response.leads
               /\ currentPage' = 1
               /\ hasNextPage' = response.pagination.hasNextPage
               /\ totalLeads' = response.pagination.total]_vars

\* C14 witness: a pull-to-refresh has answered 2xx and the list shows the
\* first page of the response, with more pages to come.
C14_Witness ==
  /\ phase = "mounted"
  /\ alert = Alert("Refreshed", "Leads updated successfully")
  /\ fetches = <<>>
  /\ gestures >= 2
  /\ Len(leads) = 1
  /\ currentPage = 1
  /\ hasNextPage
  /\ totalLeads = NumLeads

\* C15: a failed fetch of any visible mode (first page, refresh, loadMore)
\* leaves the list, currentPage, hasNextPage and the total unchanged.
C15_FailureFrame ==
  [][\A i \in 1..Len(fetches) :
       FetchFailed(i) => UNCHANGED <<leads, currentPage, hasNextPage, totalLeads>>]_vars

\* C15 witness: a fetch failed after a pull-to-refresh had been issued on a
\* non-empty list, and the list is still shown.
C15_Witness ==
  /\ phase = "mounted"
  /\ error = "Failed to fetch leads"
  /\ alert = Alert("Refreshed", "Leads updated successfully")
  /\ leads # <<>>
  /\ fetches = <<>>

\* C16: every failure of a first-page or refresh fetch is surfaced to the
\* user, as an error alert or as the visible error state, also when the
\* failing fetch is a refresh and the list is non-empty.
C16_FailureSurfaced ==
  [][\A i \in 1..Len(fetches) :
       (FetchFailed(i) /\ ~fetches[i].isLoadMore)
         => \/ alert' = Alert("Failed to Load", "Failed to fetch leads")
            \/ ViewMode' = "error"]_vars

\* C17: notify on a lead that has no assignee is rejected locally: no network
\* call is made, no confirmation is opened, no operation entry is created,
\* and the user is told that the lead is not assigned to anyone.
C17_NotifyNeedsAssignee ==
  [][\A leadId \in LeadIds :
       (/\ handleNotifyLead(leadId)
        /\ HasLead(leads, leadId)
        /\ FindLead(leads, leadId).assignee = Null)
         => /\ alert' = Alert("Notification Failed",
                              "This lead is not assigned to anyone")
            /\ dialog' = NoDialog
            /\ ops' = ops
            /\ fetches' = fetches
            /\ UNCHANGED opVars]_vars

\* C17 witness: the rejection message is shown and nothing is pending.
C17_Witness ==
  /\ alert = Alert("Notification Failed", "This lead is not assigned to anyone")
  /\ \E j \in 1..Len(leads) : leads[j].assignee = Null
  /\ dialog = NoDialog
  /\ ops = <<>>
  /\ notifyingAssignee = Null

\* the step issues a fetch straight from a handler or effect of the current
\* render (not from a timer callback or a mutation continuation), so the
\* request is built from the search term and status filter now in force
FetchFromCurrentRender ==
  /\ FetchIssued
  /\ ops' = ops
  /\ timers' = timers
  /\ phase = "mounted"

\* C18: with an empty or whitespace-only search term and status 'Pending'
\* the lead request carries exactly one filter predicate, {field: status,
\* operator: eq, value: pending}, and no search_term parameter; with
\* 'All Status' it carries no status predicate.
C18_RequestBuilding ==
  [][(FetchFromCurrentRender /\ Trim(searchQuery') = <<>>)
       => /\ IssuedFetch.query.search_term = {}
          /\ selectedStatus' = "Pending" =>
               IssuedFetch.query.filters =
                 {<<[field |-> "status", operator |-> "eq", value |-> "pending"]>>}
          /\ selectedStatus' = "All Status" =>
               IssuedFetch.query.filters = {}]_vars

\* C18 witness: the search box holds one blank, the Pending pill is selected,
\* and the pending request has the single status predicate and no search_term.
C18_Witness ==
  /\ phase = "mounted"
  /\ searchQuery = <<" ">>
  /\ selectedStatus = "Pending"
  /\ Len(fetches) = 1
  /\ fetches[1].query.search_term = {}
  /\ fetches[1].query.filters =
       {<<[field |-> "status", operator |-> "eq", value |-> "pending"]>>}

\* the displayed lead carries the optimistic value of the pending mutation op
ShowsPatch(lead, op) ==
  /\ lead.id = op.leadId
  /\ lead = OptimisticLead(lead, op.kind, op.arg)

\* C19: pending wins: when a page-1 refetch (refresh, first page) completes
\* while a mutation on a displayed lead is still pending, the lead keeps the
\* optimistic value of that mutation; the response does not overwrite it.
C19_PendingWins ==
  [][\A i \in 1..Len(fetches) : \A k \in 1..Len(ops) :
       (/\ FetchSucceeded(i)
        /\ ~fetches[i].isLoadMore
        /\ ops[k].kind # "notify"
        /\ \E m \in 1..Len(leads) : ShowsPatch(leads[m], ops[k]))
         => \A j \in 1..Len(leads') :
              leads'[j].id = ops[k].leadId => ShowsPatch(leads'[j], ops[k])]_vars

\* C22: when the network call of a mutation resolves on the mounted screen,
\* the operation marker of its kind returns to null, whether the call
\* succeeded or failed, and a success leaves the displayed list, with its
\* optimistic patch, as it was; with no mutation pending every marker is null.
C22_MutationLeavesPending ==
  /\ [](phase = "mounted" /\ ops = <<>>
          => \A kind \in MutationKinds : Marker(kind) = Null)
  /\ [][\A i \in 1..Len(ops) : \A kind \in MutationKinds :
          (/\ phase = "mounted"
           /\ ops' = RemoveAt(ops, i)
           /\ ops[i].kind = kind)
            => /\ Marker(kind)' = Null
               /\ alert' = SuccessAlert(kind) => leads' = leads]_vars

\* C22 witness: the assignment of lead 1 has succeeded; the list still shows
\* the assignee that was patched in, and no marker is set.
C22_Witness ==
  /\ phase = "mounted"
  /\ alert = SuccessAlert("assign")
  /\ ops = <<>>
  /\ fetches = <<>>
  /\ \A kind \in MutationKinds : Marker(kind) = Null
  /\ \E j \in 1..Len(leads) : leads[j].id = 1 /\ leads[j].assignee = 1

\* C23: notify applies no local patch: the tap on Notify, the confirmation
\* (or its cancellation) and the completion of the notify request, success or
\* failure, each leave the displayed list and the pagination state unchanged
\* and issue no lead fetch, so a failed notify triggers no rollback refetch.
C23_NotifyNoPatch ==
  [][/\ \A leadId \in LeadIds :
          handleNotifyLead(leadId) => UNCHANGED listVars /\ fetches' = fetches
     /\ (dialog.kind = "notify" /\ dialog' = NoDialog)
          => UNCHANGED listVars /\ fetches' = fetches
     /\ \A i \in 1..Len(ops) :
          (ops' = RemoveAt(ops, i) /\ ops[i].kind = "notify")
            => UNCHANGED listVars /\ fetches' = fetches]_vars

\* C23 witness: a confirmed notify request has failed on the mounted screen;
\* the list is shown and no fetch is in flight.
C23_Witness ==
  /\ phase = "mounted"
  /\ alert = FailureAlert("notify")
  /\ ops = <<>>
  /\ fetches = <<>>
  /\ refreshing = FALSE
  /\ leads # <<>>

\* C25: after a failed assign, unassign or change-status mutation the wrong
\* optimistic patch is discarded: once every mutation has failed (the server
\* data never changed) and every fetch has completed, each displayed lead
\* shows what the server reports, also when the rollback refetch itself failed.
C25_FailedPatchDiscarded ==
  (/\ phase = "mounted"
   /\ srv = InitialServer
   /\ ops = <<>>
   /\ fetches = <<>>)
    => \A j \in 1..Len(leads) : leads[j] = ServerLead(srv, leads[j].id)

\* the first page the server returns for the search term and status filter
\* now in force
CurrentFirstPage ==
  ServerResponse(srv, LeadQuery(1, searchQuery, selectedStatus))

\* C26: filter consistency at quiescence: once no lead fetch is in flight and
\* no debounce timer is pending (and no fetch has failed, no mutation has
\* changed the server), the displayed list begins with the first page of the
\* response for the current search term and status filter and the total is
\* that response's total; a late response to a superseded filter state does
\* not remain displayed.
C26_FilterConsistency ==
  (/\ phase = "mounted"
   /\ fetches = <<>>
   /\ timers = {}
   /\ error = NoError
   /\ srv = InitialServer)
    => /\ totalLeads = CurrentFirstPage.pagination.total
       /\ Len(leads) >= Len(CurrentFirstPage.leads)
       /\ CurrentFirstPage.leads = <<>> => leads = <<>>
       /\ \A j \in 1..Len(CurrentFirstPage.leads) :
            leads[j].id = CurrentFirstPage.leads[j].id

\* C27: lead ids stay unique in the displayed list: no lead id occurs at two
\* positions, whatever fetches, loadMore requests, filter changes and
\* mutations have happened (the server's pages are disjoint).
C27_UniqueLeadIds ==
  \A j \in 1..Len(leads) : \A k \in 1..Len(leads) :
    leads[j].id = leads[k].id => j = k

\* C28: loading flags track their fetch: on the mounted screen refreshing is
\* true while a refresh fetch is in flight and loadingMore is true while a
\* loadMore fetch is in flight (the completion of another fetch does not
\* clear them), and with no lead fetch in flight all three flags are false.
C28_FlagsTrackFetch ==
  phase = "mounted" =>
    /\ (\E k \in 1..Len(fetches) : fetches[k].isRefresh) => refreshing
    /\ (\E k \in 1..Len(fetches) : fetches[k].isLoadMore) => loadingMore
    /\ fetches = <<>> => ~loading /\ ~refreshing /\ ~loadingMore

\* the step is a tap on a mutation button that ends in a validation alert
\* instead of the confirmation dialog
MutationRejected ==
  /\ \/ handleAssignLead
     \/ handleUnassignLead
     \/ handleStatusChange
     \/ handleNotify
  /\ dialog' = NoDialog

\* C29: a mutation request that is rejected before confirmation, or cancelled
\* in the confirmation dialog, issues no network call (no mutation request,
\* no lead fetch) and leaves the lead list, the pagination state and all four
\* operation markers unchanged.
C29_RejectedMutationFrame ==
  [][(MutationRejected \/ DialogCancel)
       => /\ ops' = ops
          /\ fetches' = fetches
          /\ UNCHANGED <<listVars, opVars>>]_vars

\* C29 witness: the one gesture so far was a mutation tap whose confirmation
\* was cancelled: nothing is pending, no alert was shown, list and filters are
\* those of the first page.
C29_Witness ==
  /\ phase = "mounted"
  /\ gestures = 1
  /\ dialog = NoDialog
  /\ alert = NoAlert
  /\ error = NoError
  /\ ops = <<>>
  /\ fetches = <<>>
  /\ searchQuery = <<>>
  /\ selectedStatus = "All Status"
  /\ Len(leads) = 1
  /\ currentPage = 1
  /\ \A kind \in MutationKinds : Marker(kind) = Null

\* the value is a LeadsResponse whose leads and pagination fields are defined
WellFormedLeadsResponse(value) ==
  /\ IsArray(value.leads)
  /\ value.pagination.currentPage.t = "number"
  /\ value.pagination.lastPage.t = "number"
  /\ value.pagination.perPage.t = "number"
  /\ value.pagination.total.t = "number"

\* C21: getLeadsAdvanced fails with an ApiError when the HTTP status is
\* non-2xx, when the response envelope is malformed or lacks the data array
\* or the pagination fields, and when the network call fails; the error
\* carries a message and, for a non-2xx response, the status code; it never
\* returns a LeadsResponse with undefined leads or pagination fields.
C21_ClientRejects ==
  (svcCall.fn = "getLeadsAdvanced" /\ svcCall.pc = "done")
    => /\ svcOutcome.kind \in {"returned", "threw"}
       /\ svcOutcome.kind = "threw"
            => /\ svcOutcome.value.name = "ApiError"
               /\ svcOutcome.value.message # ""
       /\ svcCall.wire.kind \in {"networkError", "invalidJson"}
            => svcOutcome.kind = "threw"
       /\ (svcCall.wire.kind = "json" /\ svcCall.wire.status # 200)
            => /\ svcOutcome.kind = "threw"
               /\ svcOutcome.value.statusCode = Num(svcCall.wire.status)
       /\ svcOutcome.kind = "returned"
            => WellFormedLeadsResponse(svcOutcome.value)

\* C24 as stated: every invocation of getLeadsAdvanced, assignLead,
\* changeLeadStatus or notifyAssignee has issued exactly one network request
\* by the time it returns or throws.
C24_ExactlyOneRequest ==
  svcCall.pc = "done" => netRequests = 1

\* C24: the lead repository client performs no retries: an invocation never
\* issues more than one network request, a request that fails is not sent
\* again, and a settled invocation has issued exactly one request unless the
\* token could not be read from AsyncStorage, in which case it issued none.
C24_NoRetries ==
  /\ netRequests <= 1
  /\ svcCall.pc = "network" => netRequests = 1
  /\ svcCall.pc = "done" =>
       (netRequests = 1 <=> svcCall.wire.kind # "storageError")

\* C24 witness: fetch() rejected, the call has thrown, one request was made.
C24_Witness ==
  /\ svcCall.pc = "done"
  /\ svcCall.fn = "assignLead"
  /\ svcCall.wire.kind = "networkError"
  /\ svcOutcome.kind = "threw"
  /\ netRequests = 1

\* C30: logout always ends logged out: once the provider's logout has
\* completed, whether the logout API call succeeded or failed, the stored
\* token and the stored user are removed and the auth state is
\* isAuthenticated = false, user = null, loading = false, error = null.
C30_LogoutEndsLoggedOut ==
  logout.pc = "done"
    => /\ authState = LoggedOut
       /\ storage.token = NoUser
       /\ storage.auth_user = NoUser

====
